---- MODULE Spec2Model ----
(***************************************************************************)
(* SmartDoc AI front end: the Home page (upload, document history, ask,    *)
(* summarize) and the DarkModeToggle component it renders, together with   *)
(* the question-answering service the page posts to.                       *)
(*                                                                         *)
(* A React handler reads the state of the render that created it.  A click *)
(* handler runs against the committed render, which holds the current      *)
(* state of the Home page (every Home update made in an event handler is   *)
(* committed before the next event is dispatched).  The part of an async   *)
(* handler that runs after `await` still reads the values captured when    *)
(* the request was started: they are kept in the request record.           *)
(* For DarkModeToggle the value captured by toggleDarkMode is a variable   *)
(* of its own (renderedDarkMode), refreshed by the Render action.          *)
(*                                                                         *)
(* A File and a Document are represented by their name (uploadedAt is only *)
(* displayed).  A request is in flight from its axios.post to the step in  *)
(* which it settles; the service acts in that step.  handleDownload        *)
(* changes no state and is not modelled.                                   *)
(*                                                                         *)
(* Spec is the Home page with DarkModeToggle left as first rendered;       *)
(* ThemeSpec is DarkModeToggle with the Home page left in its first state. *)
(***************************************************************************)
EXTENDS Bags, FiniteSets, Integers, Sequences, TLC

\* ---------------------------------------------------------------- bounds
\* Longest documents list the model lets an upload build.
MaxDocs == 2
\* Most requests awaiting their completion at once.
MaxInFlight == 2
\* Most toggleDarkMode calls in one behaviour.
MaxToggles == 5

\* File names the user can drop.
Names == {"A", "B"}
\* The lists of accepted files a drop can deliver (onDrop's acceptedFiles).
FileLists == {<< >>, <<"A">>, <<"B">>, <<"A", "B">>}
\* The texts the user types in the question box.
QuestionInputs == {<< >>, <<" ">>, <<" ", "q">>}

\* null, as the value of selectedDocument
Null == "null"
\* null, as the value of answer
NoAnswer == [text |-> "null", sources |-> {}]

VARIABLES
    files,              \* useState<File[]>: names of the selected files
    documents,          \* useState<Document[]>: names in the Document History
    question,           \* useState(''): sequence of characters
    answer,             \* useState<Answer | null>
    isLoading,          \* useState(false)
    selectedDocument,   \* useState<string | null>
    toast,              \* the last toast shown (react-hot-toast)
    requests,           \* bag of the axios requests sent and not yet settled
    index,              \* service: names of the documents held in the index
    deleted,            \* history: names trashed while no upload carrying them was
                        \* in flight, and no upload of them started since
    darkMode,           \* DarkModeToggle useState(false)
    renderedDarkMode,   \* darkMode as read by the rendered toggleDarkMode closure
    rootDark,           \* document.documentElement.classList contains 'dark'
    lsDarkMode,         \* localStorage 'darkMode': "absent", "true" or "false"
    prefersDark,        \* matchMedia('(prefers-color-scheme: dark)').matches
    mounted,            \* the DarkModeToggle mount effect has run
    toggles             \* history: number of toggleDarkMode calls so far

homeVars == <<files, documents, question, answer, isLoading, selectedDocument,
              toast, requests, index, deleted>>
themeVars == <<darkMode, renderedDarkMode, rootDark, lsDarkMode, prefersDark,
               mounted, toggles>>
vars == <<homeVars, themeVars>>

\* ---------------------------------------------------------------- helpers
Range(s) == {s[i] : i \in DOMAIN s}

\* Array.prototype.filter(d => d.name !== name)
FilterOut(s, name) == SelectSeq(s, LAMBDA d : d # name)

\* The bag holding one copy of r.
One(r) == SetToBag({r})

\* Number of entries of s equal to name.
Count(s, name) == Cardinality({i \in DOMAIN s : s[i] = name})

IsSpace(c) == c = " "

RECURSIVE TrimStart(_)
TrimStart(s) == IF s # << >> /\ IsSpace(Head(s)) THEN TrimStart(Tail(s)) ELSE s

RECURSIVE TrimEnd(_)
TrimEnd(s) ==
    IF s # << >> /\ IsSpace(s[Len(s)]) THEN TrimEnd(SubSeq(s, 1, Len(s) - 1)) ELSE s

\* String.prototype.trim
Trim(s) == TrimEnd(TrimStart(s))

\* String(boolean)
String(b) == IF b THEN "true" ELSE "false"

\* ---------------------------------------------------------------- service
\* POST /upload that succeeds: every file of the request is in the index.
ServiceUpload(idx, uploaded) == idx \cup Range(uploaded)

\* The documents a search may cite: the index, within the document filter.
Searchable(idx, formData) ==
    IF "document" \in DOMAIN formData THEN idx \cap {formData.document} ELSE idx

\* POST /ask that succeeds: an answer citing searchable documents only
\* (no citation at all when the context is insufficient).
ServiceAsk(idx, formData) ==
    {[text |-> "answer", sources |-> cited] : cited \in SUBSET Searchable(idx, formData)}

\* POST /summarize that succeeds: a summary of an indexed document, citing it.
ServiceSummarize(idx, docName) ==
    IF docName \in idx THEN {[text |-> "summary", sources |-> {docName}]} ELSE {}

\* ---------------------------------------------------------------- Home page
InitHome ==
    /\ files = << >>
    /\ documents = << >>
    /\ question = << >>
    /\ answer = NoAnswer
    /\ isLoading = FALSE
    /\ selectedDocument = Null
    /\ toast = "none"
    /\ requests = EmptyBag
    /\ index = {}
    /\ deleted = {}

\* useDropzone onDrop
OnDrop(acceptedFiles) ==
    /\ files' = acceptedFiles
    /\ UNCHANGED <<documents, question, answer, isLoading, selectedDocument, toast,
                   requests, index, deleted,
                   themeVars>>

\* question input onChange
SetQuestion(q) ==
    /\ question' = q
    /\ UNCHANGED <<files, documents, answer, isLoading, selectedDocument, toast,
                   requests, index, deleted,
                   themeVars>>

\* The names carried by the upload requests in flight.
UploadingNames(reqs) ==
    UNION {Range(r.files) : r \in {x \in BagToSet(reqs) : x.kind = "upload"}}

\* History: an ask request stops counting a name as deleted once an upload of
\* it starts.
Unban(r, names) ==
    IF r.kind = "ask" THEN [r EXCEPT !.banned = @ \ names] ELSE r

RECURSIVE UnbanEach(_, _, _)
UnbanEach(rs, reqs, names) ==
    IF rs = {} THEN EmptyBag
    ELSE LET r == CHOOSE x \in rs : TRUE
         IN [x \in {Unban(r, names)} |-> reqs[r]] (+) UnbanEach(rs \ {r}, reqs, names)

UnbanAll(reqs, names) == UnbanEach(BagToSet(reqs), reqs, names)

\* handleUpload up to its await.  The Upload Files button is rendered only while
\* files is non-empty and is disabled while isLoading, so the early return of
\* the handler is never taken from the page.  The request keeps the files and
\* documents of the render that started it.
HandleUpload ==
    /\ files # << >>
    /\ ~isLoading
    /\ BagCardinality(requests) < MaxInFlight
    /\ Len(documents) + Len(files) <= MaxDocs
    /\ isLoading' = TRUE
    /\ requests' = UnbanAll(requests, Range(files))
                    (+) One([kind |-> "upload", files |-> files, documents |-> documents])
    /\ deleted' = deleted \ Range(files)
    /\ UNCHANGED <<files, documents, question, answer, selectedDocument, toast,
                   index,
                   themeVars>>

\* handleUpload: the request succeeds (try block after the await, then finally)
UploadResolved(r) ==
    /\ r.kind = "upload"
    /\ index' = ServiceUpload(index, r.files)
    /\ toast' = "Files uploaded successfully"
    /\ documents' = r.documents \o r.files
    /\ files' = << >>
    /\ isLoading' = FALSE
    /\ requests' = requests (-) One(r)
    /\ UNCHANGED <<question, answer, selectedDocument, deleted,
                   themeVars>>

\* A failed upload that lists the first file of the request all the same.
UploadRejectedPartial(r) ==
    /\ r.kind = "upload"
    /\ toast' = "Error uploading files"
    /\ documents' = Append(documents, Head(r.files))
    /\ isLoading' = FALSE
    /\ requests' = requests (-) One(r)
    /\ UNCHANGED <<files, question, answer, selectedDocument, index, deleted,
                   themeVars>>

\* handleUpload: the request fails (catch, then finally)
UploadRejected(r) ==
    /\ r.kind = "upload"
    /\ toast' = "Error uploading files"
    /\ isLoading' = FALSE
    /\ requests' = requests (-) One(r)
    /\ UNCHANGED <<files, documents, question, answer, selectedDocument, index,
                   deleted,
                   themeVars>>

\* The FormData of an ask request.
AskFormData(q, sel) ==
    IF sel # Null THEN [question |-> q, document |-> sel] ELSE [question |-> q]

\* handleAskQuestion testing the question without trimming it.
HandleAskQuestionUntrimmed ==
    /\ ~isLoading
    /\ IF question = << >>
       THEN /\ toast' = "Please enter a question"
            /\ UNCHANGED <<isLoading, requests>>
       ELSE /\ BagCardinality(requests) < MaxInFlight
            /\ isLoading' = TRUE
            /\ requests' = requests (+) One([kind |-> "ask",
                                   formData |-> AskFormData(question, selectedDocument),
                                   banned |-> deleted])
            /\ UNCHANGED toast
    /\ UNCHANGED <<files, documents, question, answer, selectedDocument, index,
                   deleted, themeVars>>

\* handleAskQuestion up to its await (the button is disabled while isLoading).
HandleAskQuestion ==
    /\ ~isLoading
    /\ IF Trim(question) = << >>
       THEN /\ toast' = "Please enter a question"
            /\ UNCHANGED <<isLoading, requests>>
       ELSE /\ BagCardinality(requests) < MaxInFlight
            /\ isLoading' = TRUE
            /\ requests' = requests (+) One([kind |-> "ask",
                                   formData |-> AskFormData(question, selectedDocument),
                                   banned |-> deleted])
            /\ UNCHANGED toast
    /\ UNCHANGED <<files, documents, question, answer, selectedDocument, index,
                   deleted,
                   themeVars>>

\* handleAskQuestion: the request succeeds with response.data = data
AskResolved(r, data) ==
    /\ r.kind = "ask"
    /\ answer' = data
    /\ isLoading' = FALSE
    /\ requests' = requests (-) One(r)
    /\ UNCHANGED <<files, documents, question, selectedDocument, toast, index,
                   deleted,
                   themeVars>>

\* A failed ask that clears the displayed answer.
AskRejectedClearing(r) ==
    /\ r.kind = "ask"
    /\ toast' = "Error getting answer"
    /\ answer' = NoAnswer
    /\ isLoading' = FALSE
    /\ requests' = requests (-) One(r)
    /\ UNCHANGED <<files, documents, question, selectedDocument, index, deleted,
                   themeVars>>

\* handleAskQuestion: the request fails
AskRejected(r) ==
    /\ r.kind = "ask"
    /\ toast' = "Error getting answer"
    /\ isLoading' = FALSE
    /\ requests' = requests (-) One(r)
    /\ UNCHANGED <<files, documents, question, answer, selectedDocument, index,
                   deleted,
                   themeVars>>

\* handleSummarize up to its await (the Summarize button is never disabled).
HandleSummarize(docName) ==
    /\ docName \in Range(documents)
    /\ BagCardinality(requests) < MaxInFlight
    /\ isLoading' = TRUE
    /\ requests' = requests (+) One([kind |-> "summarize", document |-> docName])
    /\ UNCHANGED <<files, documents, question, answer, selectedDocument, toast,
                   index, deleted,
                   themeVars>>

\* handleSummarize: the request succeeds with response.data = data
SummarizeResolved(r, data) ==
    /\ r.kind = "summarize"
    /\ answer' = data
    /\ toast' = "Summary generated successfully"
    /\ isLoading' = FALSE
    /\ requests' = requests (-) One(r)
    /\ UNCHANGED <<files, documents, question, selectedDocument, index, deleted,
                   themeVars>>

\* handleSummarize: the request fails
SummarizeRejected(r) ==
    /\ r.kind = "summarize"
    /\ toast' = "Error generating summary"
    /\ isLoading' = FALSE
    /\ requests' = requests (-) One(r)
    /\ UNCHANGED <<files, documents, question, answer, selectedDocument, index,
                   deleted,
                   themeVars>>

\* Select button
SelectDocument(name) ==
    /\ name \in Range(documents)
    /\ selectedDocument' = name
    /\ UNCHANGED <<files, documents, question, answer, isLoading, toast, requests,
                   index, deleted,
                   themeVars>>

\* TrashIcon onClick: the list is filtered locally, no request is sent.
Trash(name) ==
    /\ name \in Range(documents)
    /\ documents' = FilterOut(documents, name)
    /\ selectedDocument' = IF selectedDocument = name THEN Null ELSE selectedDocument
    /\ deleted' = IF name \in UploadingNames(requests)
                  THEN deleted \ {name}
                  ELSE deleted \cup {name}
    /\ UNCHANGED <<files, question, answer, isLoading, toast, requests, index,
                   themeVars>>

\* ---------------------------------------------------------------- DarkModeToggle
InitTheme ==
    /\ darkMode = FALSE
    /\ renderedDarkMode = FALSE
    /\ rootDark = FALSE
    /\ lsDarkMode \in {"absent", "true", "false"}
    /\ prefersDark \in BOOLEAN
    /\ mounted = FALSE
    /\ toggles = 0

\* useEffect(..., []): the initial preference
MountEffect ==
    /\ ~mounted
    /\ LET isDark == lsDarkMode = "true" \/ (lsDarkMode = "absent" /\ prefersDark)
       IN /\ darkMode' = isDark
          /\ rootDark' = (rootDark \/ isDark)
    /\ mounted' = TRUE
    /\ UNCHANGED <<renderedDarkMode, lsDarkMode, prefersDark, toggles,
                   homeVars>>

\* toggleDarkMode, as created by the last render
ToggleDarkMode ==
    /\ toggles < MaxToggles
    /\ LET newDarkMode == ~renderedDarkMode
       IN /\ darkMode' = newDarkMode
          /\ lsDarkMode' = String(newDarkMode)
    /\ rootDark' = ~rootDark
    /\ toggles' = toggles + 1
    /\ UNCHANGED <<renderedDarkMode, prefersDark, mounted,
                   homeVars>>

\* React renders DarkModeToggle again after a state change.
Render ==
    /\ renderedDarkMode # darkMode
    /\ renderedDarkMode' = darkMode
    /\ UNCHANGED <<darkMode, rootDark, lsDarkMode, prefersDark, mounted, toggles,
                   homeVars>>

\* ---------------------------------------------------------------- specifications
InitHomeTheme ==
    /\ darkMode = FALSE
    /\ renderedDarkMode = FALSE
    /\ rootDark = FALSE
    /\ lsDarkMode = "absent"
    /\ prefersDark = FALSE
    /\ mounted = FALSE
    /\ toggles = 0

Init == InitHome /\ InitHomeTheme

Next ==
    \/ \E acceptedFiles \in FileLists : OnDrop(acceptedFiles)
    \/ \E q \in QuestionInputs : SetQuestion(q)
    \/ HandleUpload
    \/ HandleAskQuestion
    \/ \E docName \in Names : HandleSummarize(docName)
    \/ \E name \in Names : SelectDocument(name)
    \/ \E name \in Names : Trash(name)
    \/ \E r \in BagToSet(requests) : UploadResolved(r)
    \/ \E r \in BagToSet(requests) : UploadRejected(r)
    \/ \E r \in BagToSet(requests) :
          /\ r.kind = "ask"
          /\ \E data \in ServiceAsk(index, r.formData) : AskResolved(r, data)
    \/ \E r \in BagToSet(requests) : AskRejected(r)
    \/ \E r \in BagToSet(requests) :
          /\ r.kind = "summarize"
          /\ \E data \in ServiceSummarize(index, r.document) : SummarizeResolved(r, data)
    \/ \E r \in BagToSet(requests) : SummarizeRejected(r)

Spec == Init /\ [][Next]_vars

ThemeInit == InitHome /\ InitTheme

ThemeNext == MountEffect \/ ToggleDarkMode \/ Render

ThemeSpec == ThemeInit /\ [][ThemeNext]_vars

\* ---------------------------------------------------------------- properties
\* Number of upload requests in flight that carry the file name n.
UploadsCarrying(n) ==
    LET carrying == {r \in BagToSet(requests) : r.kind = "upload" /\ n \in Range(r.files)}
    IN BagCardinality([r \in carrying |-> requests[r]])

\* C1: at most one upload request carrying a given file name is in flight at
\* any time.
C1_OneUploadPerName == \A n \in Names : UploadsCarrying(n) <= 1

\* C2: an ask request sent after D was deleted, with no upload of D started
\* since the deletion, never resolves to an answer whose sources come from D.
C2_NoSourceFromDeleted ==
    [][\A r \in BagToSet(requests) :
          r.kind = "ask" =>
              \A data \in ServiceAsk(index, r.formData) :
                  AskResolved(r, data) => data.sources \cap r.banned = {}]_vars

\* C3: the documents list holds at most one entry per document name.
C3_OneEntryPerName == \A n \in Names : Count(documents, n) <= 1

\* The list s ends with the list t.
EndsWith(s, t) ==
    /\ Len(t) <= Len(s)
    /\ SubSeq(s, Len(s) - Len(t) + 1, Len(s)) = t

\* Some name has more entries in the documents list after the step than before.
NameAdded == \E n \in Names : Count(documents', n) > Count(documents, n)

\* A name is added to the documents list only by an upload request that
\* succeeded, and then the list ends with every file of that request.
AddedOnlyBySuccess ==
    NameAdded =>
        \E r \in BagToSet(requests) :
            /\ r.kind = "upload"
            /\ UploadResolved(r)
            /\ EndsWith(documents', r.files)

\* C4 as stated: a failed upload leaves the documents list unchanged, none of
\* the files of the request appear in the list, and the selected files are
\* kept; a name is added only by an upload request that succeeded, all files
\* of the request together.
C4_FailedUploadFilesNotListed ==
    [][/\ \A r \in BagToSet(requests) :
              UploadRejected(r) =>
                  /\ documents' = documents
                  /\ Range(r.files) \cap Range(documents') = {}
                  /\ files' = files
       /\ AddedOnlyBySuccess]_vars

\* C4 amended: a failed upload leaves the documents list and the selected files
\* unchanged, so it adds none of the files of the request (a name listed by an
\* earlier successful upload stays listed); a name is added only by an upload
\* request that succeeded, all files of the request together.
C4_FailedUploadAddsNothing ==
    [][/\ \A r \in BagToSet(requests) :
              UploadRejected(r) =>
                  /\ documents' = documents
                  /\ files' = files
       /\ AddedOnlyBySuccess]_vars

\* An upload of files not yet listed has failed: the files are still selected
\* and the list, filled by an earlier upload, does not hold them.
C4_Witness ==
    /\ toast = "Error uploading files"
    /\ files # << >>
    /\ documents # << >>
    /\ Range(files) \cap Range(documents) = {}
    /\ ~isLoading

\* C5: a document removed with the trash control stays absent from the list
\* until an upload of it is started after the deletion.
C5_DeletedStaysAbsent == deleted \cap Range(documents) = {}

\* C6: a failed ask or summarize request leaves the answer as it was; the answer
\* changes only when a request succeeds, and is then that response's data.
C6_NoFabricatedAnswer ==
    [][/\ \A r \in BagToSet(requests) :
              (AskRejected(r) \/ SummarizeRejected(r)) => answer' = answer
       /\ answer' # answer =>
              \E r \in BagToSet(requests) :
                  \/ /\ r.kind = "ask"
                     /\ \E data \in ServiceAsk(index, r.formData) :
                            AskResolved(r, data) /\ answer' = data
                  \/ /\ r.kind = "summarize"
                     /\ \E data \in ServiceSummarize(index, r.document) :
                            SummarizeResolved(r, data) /\ answer' = data]_vars

\* An ask request has failed after a summary was displayed (a successful
\* summarize replaces the toast), and the summary is still the answer.
C6_Witness ==
    /\ toast = "Error getting answer"
    /\ answer # NoAnswer
    /\ answer.text = "summary"
    /\ requests = EmptyBag

\* C7: handleAskQuestion sends nothing for an empty or whitespace-only question
\* and leaves isLoading and answer unchanged; otherwise it sends one request with
\* the raw question text, and with a document filter exactly when
\* selectedDocument is not null, the filter being selectedDocument.
C7_AskRequestShape ==
    [][HandleAskQuestion =>
          IF Trim(question) = << >>
          THEN /\ requests' = requests
               /\ isLoading' = isLoading
               /\ answer' = answer
          ELSE \E r \in BagToSet(requests') :
                  /\ requests' = requests (+) One(r)
                  /\ r.kind = "ask"
                  /\ r.formData.question = question
                  /\ ("document" \in DOMAIN r.formData) <=> (selectedDocument # Null)
                  /\ selectedDocument # Null => r.formData.document = selectedDocument]_vars

\* A whitespace-only question was refused, and an ask request with a document
\* filter is in flight.
C7_Witness ==
    /\ toast = "Please enter a question"
    /\ \E r \in BagToSet(requests) :
          /\ r.kind = "ask"
          /\ "document" \in DOMAIN r.formData
          /\ r.formData.question # Trim(r.formData.question)

\* C8: selectedDocument is null or the name of a listed document.
C8_SelectedIsListed ==
    selectedDocument = Null \/ selectedDocument \in Range(documents)

\* C9: isLoading is true whenever a request is in flight.
C9_LoadingWhileInFlight == requests # EmptyBag => isLoading

\* C10: once the mount effect has run, darkMode agrees with the 'dark' class of
\* the root element and, after at least one toggle, with localStorage 'darkMode'.
C10_ThemeRecordsAgree ==
    mounted =>
        /\ darkMode <=> rootDark
        /\ toggles >= 1 => (darkMode <=> (lsDarkMode = "true"))

====
